---------------------------- MODULE Spec2Model ----------------------------
(***************************************************************************)
(* Listings dashboard (src/src/App.tsx, and its earlier iteration          *)
(* src/unnamed/part_000): the normalizers extractPrice, formatPrice,       *)
(* getTimestamp and formatUploadedAt, the filteredListings pipeline        *)
(* (filter, then sort) and the one-shot fetch that feeds it.               *)
(*                                                                         *)
(* Conventions.                                                            *)
(*  - A JavaScript string is a sequence of one-character strings.          *)
(*  - A JavaScript number is a record [c, v]: c = "fin" with v the value   *)
(*    in units of 1/Scale, c = "inf" with v the sign, or c = "nan".        *)
(*  - An instant is counted in whole days since the epoch instead of       *)
(*    milliseconds (a change of unit: 1 day = 86400000 ms).                *)
(*  - A function that can throw returns an outcome [thrown, v].            *)
(***************************************************************************)
EXTENDS Integers, Sequences, FiniteSets, TLC

VARIABLES
    iteration,      \* "current" (src/src/App.tsx) or "earlier" (part_000)
    listings,       \* useState<Listing[]>([])
    loading,        \* useState<boolean>(true)
    error,          \* useState<string | null>(null)
    activeView,     \* useState('dashboard'), current iteration only
    searchTerm,     \* useState('')
    selectedState,  \* useState('all')
    minPrice,       \* useState('')
    maxPrice,       \* useState('')
    sortBy,         \* useState<SortOption>('newest')
    fetchPc,        \* position of fetchListings: "pending" or "settled"
    view,           \* filteredListings as rendered after the last update
    insights,       \* the distributions, states, total and average as rendered
    priceIn,        \* harness: the raw price handed to a price normalizer
    priceCall,      \* harness: which price normalizer has been applied
    priceNum,       \* harness: outcome of extractPrice(priceIn)
    priceText,      \* harness: outcome of formatPrice(priceIn)
    tsIn,           \* harness: the raw uploadedAt handed to a normalizer
    tsCall,         \* harness: which temporal normalizer has been applied
    tsNum,          \* harness: outcome of getTimestamp(tsIn)
    tsText          \* harness: outcome of formatUploadedAt(tsIn)

appVars == <<iteration, listings, loading, error, activeView, searchTerm,
             selectedState, minPrice, maxPrice, sortBy, fetchPc, view, insights>>
priceVars == <<priceIn, priceCall, priceNum, priceText>>
tsVars == <<tsIn, tsCall, tsNum, tsText>>
vars == <<appVars, priceVars, tsVars>>

-----------------------------------------------------------------------------
(* Bounds of the model.                                                    *)

\* Longest enumerated price text handed to the price normalizers.
MaxLen == 3
\* Longest snapshot of the store among those enumerated exhaustively.
MaxListings == 2

-----------------------------------------------------------------------------
(* JavaScript numbers.                                                     *)

RECURSIVE Pow10(_)
Pow10(n) == IF n = 0 THEN 1 ELSE 10 * Pow10(n - 1)

\* A text of at most MaxLen characters has at most MaxLen - 1 fraction digits.
Scale == Pow10(MaxLen - 1)

Fin(x) == [c |-> "fin", v |-> x]
NaN == [c |-> "nan", v |-> 0]
PosInf == [c |-> "inf", v |-> 1]
NegInf == [c |-> "inf", v |-> -1]
Zero == Fin(0)
\* The number whole + tenths/10.
Dec(whole, tenths) == Fin(whole * Scale + tenths * (Scale \div 10))
Whole(n) == Dec(n, 0)

IsNaN(a) == a.c = "nan"

\* a < b of JavaScript: false when either side is NaN.
NumLt(a, b) ==
    CASE a.c = "nan" \/ b.c = "nan" -> FALSE
      [] a.c = "fin" /\ b.c = "fin" -> a.v < b.v
      [] a.c = "inf" /\ b.c = "inf" -> a.v < b.v
      [] a.c = "inf" -> a.v < 0
      [] OTHER -> b.v > 0

NumGt(a, b) == NumLt(b, a)
NumGe(a, b) == ~IsNaN(a) /\ ~IsNaN(b) /\ ~NumLt(a, b)
NumLe(a, b) == NumGe(b, a)
\* a === b of JavaScript on numbers (NaN equals nothing, -0 equals 0).
NumEq(a, b) == ~IsNaN(a) /\ ~IsNaN(b) /\ a = b

\* a - b of JavaScript.
NumSub(a, b) ==
    CASE a.c = "nan" \/ b.c = "nan" -> NaN
      [] a.c = "fin" /\ b.c = "fin" -> Fin(a.v - b.v)
      [] a.c = "inf" /\ b.c = "inf" -> IF a.v = b.v THEN NaN ELSE a
      [] a.c = "inf" -> a
      [] OTHER -> [c |-> "inf", v |-> -b.v]

\* a + b of JavaScript.
NumAdd(a, b) ==
    CASE a.c = "nan" \/ b.c = "nan" -> NaN
      [] a.c = "fin" /\ b.c = "fin" -> Fin(a.v + b.v)
      [] a.c = "inf" /\ b.c = "inf" -> IF a.v = b.v THEN a ELSE NaN
      [] a.c = "inf" -> a
      [] OTHER -> b

\* a / n of JavaScript for a count n >= 0: 0 / 0 is NaN, another number
\* over 0 is an infinity; a finite quotient is kept to 1/Scale, cut
\* towards zero.
NumDiv(a, n) ==
    CASE a.c = "nan" -> NaN
      [] a.c = "inf" -> a
      [] n = 0 -> IF a.v = 0 THEN NaN ELSE [c |-> "inf", v |-> IF a.v < 0 THEN -1 ELSE 1]
      [] OTHER -> Fin(IF a.v < 0 THEN -((-a.v) \div n) ELSE a.v \div n)

-----------------------------------------------------------------------------
(* JavaScript strings.                                                     *)

Digits == <<"0", "1", "2", "3", "4", "5", "6", "7", "8", "9">>
IsDigit(ch) == \E i \in 1..10 : Digits[i] = ch
DigitVal(ch) == (CHOOSE i \in 1..10 : Digits[i] = ch) - 1

RECURSIVE Strings(_, _)
\* Every string over the alphabet of length at most n.
Strings(alphabet, n) ==
    IF n = 0 THEN {<<>>}
    ELSE LET shorter == Strings(alphabet, n - 1)
         IN shorter \cup {Append(s, ch) : s \in shorter, ch \in alphabet}

RECURSIVE DropWhile(_, _)
DropWhile(s, chars) ==
    IF s # <<>> /\ Head(s) \in chars THEN DropWhile(Tail(s), chars) ELSE s

RECURSIVE LeadingDigits(_)
\* The longest prefix of s made of decimal digits.
LeadingDigits(s) ==
    IF s # <<>> /\ IsDigit(Head(s)) THEN <<Head(s)>> \o LeadingDigits(Tail(s))
    ELSE <<>>

RECURSIVE DigitsValue(_)
DigitsValue(ds) ==
    IF ds = <<>> THEN 0
    ELSE 10 * DigitsValue(SubSeq(ds, 1, Len(ds) - 1)) + DigitVal(ds[Len(ds)])

RECURSIVE RemoveChars(_, _)
\* String.prototype.replace(/[chars]/g, '').
RemoveChars(s, chars) ==
    IF s = <<>> THEN <<>>
    ELSE IF Head(s) \in chars THEN RemoveChars(Tail(s), chars)
    ELSE <<Head(s)>> \o RemoveChars(Tail(s), chars)

\* -x of JavaScript.
NumNeg(x) == IF x.c = "nan" THEN x ELSE [c |-> x.c, v |-> -x.v]

\* The digits after the point that opens rest, if it opens it.
FractionOf(rest) ==
    IF rest # <<>> /\ Head(rest) = "." THEN LeadingDigits(Tail(rest)) ELSE <<>>

\* The number with the integer digits int and the fraction digits frac;
\* NaN when there is no digit at all.
DecimalOf(int, frac) ==
    IF int = <<>> /\ frac = <<>> THEN NaN
    ELSE Fin(DigitsValue(int) * Scale
             + DigitsValue(frac) * (Scale \div Pow10(Len(frac))))

ParseAfterInteger(body, int) ==
    DecimalOf(int, FractionOf(SubSeq(body, Len(int) + 1, Len(body))))

\* The longest prefix of body that is an unsigned decimal literal.
ParseUnsigned(body) == ParseAfterInteger(body, LeadingDigits(body))

ParseSigned(t) ==
    IF t # <<>> /\ Head(t) = "-" THEN NumNeg(ParseUnsigned(Tail(t)))
    ELSE IF t # <<>> /\ Head(t) = "+" THEN ParseUnsigned(Tail(t))
    ELSE ParseUnsigned(t)

\* The global parseFloat: leading white space is skipped, then the longest
\* prefix that is a decimal literal (sign, digits, fraction) is converted;
\* NaN when there is none.  Exponents and the literal Infinity are not
\* modelled: no text of the model has e or E after a digit or begins with I.
parseFloat(s) == ParseSigned(DropWhile(s, {" "}))


-----------------------------------------------------------------------------
(* Price normalizer (extractPrice) and price display (formatPrice).        *)

\* A raw price: string | number | undefined.
PriceUndefined == [k |-> "undefined", n |-> Zero, s |-> <<>>]
PriceNumber(x) == [k |-> "number", n |-> x, s |-> <<>>]
PriceString(t) == [k |-> "string", n |-> Zero, s |-> t]

\* !price of JavaScript.
PriceFalsy(price) ==
    \/ price.k = "undefined"
    \/ price.k = "number" /\ (IsNaN(price.n) \/ price.n = Zero)
    \/ price.k = "string" /\ price.s = <<>>

\* isNaN(parsed) ? 0 : parsed
ZeroIfNaN(parsed) == IF IsNaN(parsed) THEN Zero ELSE parsed

\* extractPrice without the removal of "$" and ",".
extractPriceKeepingDecoration(priceStr) ==
    IF priceStr.k = "number" THEN priceStr.n
    ELSE IF PriceFalsy(priceStr) \/ priceStr.k # "string" THEN Zero
    ELSE ZeroIfNaN(parseFloat(priceStr.s))

\* extractPrice that lets the NaN of an unparseable text through.
extractPriceLeakingNaN(priceStr) ==
    IF priceStr.k = "number" THEN priceStr.n
    ELSE IF PriceFalsy(priceStr) \/ priceStr.k # "string" THEN Zero
    ELSE parseFloat(RemoveChars(priceStr.s, {"$", ","}))

extractPrice(priceStr) ==
    IF priceStr.k = "number" THEN priceStr.n
    ELSE IF PriceFalsy(priceStr) \/ priceStr.k # "string" THEN Zero
    ELSE ZeroIfNaN(parseFloat(RemoveChars(priceStr.s, {"$", ","})))

RECURSIVE NatDigits(_)
\* The decimal digits of a natural number.
NatDigits(n) ==
    IF n < 10 THEN <<Digits[n + 1]>>
    ELSE NatDigits(n \div 10) \o <<Digits[(n % 10) + 1]>>

RECURSIVE GroupThousands(_)
\* Grouping separators every three digits from the right.
GroupThousands(ds) ==
    IF Len(ds) <= 3 THEN ds
    ELSE GroupThousands(SubSeq(ds, 1, Len(ds) - 3)) \o <<",">>
         \o SubSeq(ds, Len(ds) - 2, Len(ds))

\* Intl.NumberFormat('en-US', {style: 'currency', currency: 'USD',
\* maximumFractionDigits: 0}).format(x): half-way cases round away from zero;
\* "oo" stands for the infinity sign.
FormatCurrency(x) ==
    CASE x.c = "nan" -> <<"$", "N", "a", "N">>
      [] x.c = "inf" -> (IF x.v < 0 THEN <<"-">> ELSE <<>>) \o <<"$", "oo">>
      [] OTHER ->
           LET magnitude == IF x.v < 0 THEN -x.v ELSE x.v
               dollars == (magnitude + (Scale \div 2)) \div Scale
           IN (IF x.v < 0 THEN <<"-">> ELSE <<>>) \o <<"$">>
              \o GroupThousands(NatDigits(dollars))

\* The currency format with the cents kept (no maximumFractionDigits: 0).
FormatCurrencyWithCents(x) ==
    IF x.c # "fin" THEN FormatCurrency(x)
    ELSE LET magnitude == IF x.v < 0 THEN -x.v ELSE x.v
             cents == ((magnitude % Scale) * 100) \div Scale
         IN (IF x.v < 0 THEN <<"-">> ELSE <<>>) \o <<"$">>
            \o GroupThousands(NatDigits(magnitude \div Scale)) \o <<".">>
            \o <<Digits[(cents \div 10) + 1], Digits[(cents % 10) + 1]>>

ContactForPricing ==
    <<"C", "o", "n", "t", "a", "c", "t", " ", "f", "o", "r", " ",
      "p", "r", "i", "c", "i", "n", "g">>

\* String(price).
PriceToString(price) ==
    IF price.k = "string" THEN price.s
    ELSE IF price.k = "undefined" THEN <<"u", "n", "d", "e", "f", "i", "n", "e", "d">>
    ELSE IF price.n.c = "fin" /\ price.n.v % Scale = 0 /\ price.n.v >= 0
         THEN NatDigits(price.n.v \div Scale)
    ELSE FormatCurrencyWithCents(price.n)

\* formatPrice that formats with cents.
formatPriceWithCents(price) ==
    IF PriceFalsy(price) THEN ContactForPricing
    ELSE LET numPrice == extractPrice(price)
         IN IF NumEq(numPrice, Zero) THEN PriceToString(price)
            ELSE FormatCurrencyWithCents(numPrice)

formatPrice(price) ==
    IF PriceFalsy(price) THEN ContactForPricing
    ELSE LET numPrice == extractPrice(price)
         IN IF NumEq(numPrice, Zero) THEN PriceToString(price)
            ELSE FormatCurrency(numPrice)

\* The characters price texts are enumerated over.
PriceAlphabet == {"$", ",", ".", "-", "0", "1", "5", "N"}

Negotiable == <<"N", "e", "g", "o", "t", "i", "a", "b", "l", "e">>
Text1250000 == <<"$", "1", ",", "2", "5", "0", ",", "0", "0", "0">>
Text120000 == <<"$", "1", "2", "0", ",", "0", "0", "0">>

\* Longer texts of interest beside the enumerated ones.
NotablePriceTexts ==
    { Text1250000, Text120000, Negotiable,
      <<" ", "$", "7", "5", ",", "5", "0", "0", ".", "5">>,
      <<"1", "2", "N", "9">>, <<"U", "S", "D", " ", "9", "0">> }

PriceTexts == Strings(PriceAlphabet, MaxLen) \cup NotablePriceTexts

PriceNumbers ==
    { Whole(0), Whole(150000), Whole(50000), Whole(-5), Whole(1000),
      Dec(0, 4), Dec(0, 5), Dec(-1, 6), Dec(1250, 5), Dec(999, 5), Dec(999, 4) }

\* Every raw price handed to the normalizers.
PriceInputs ==
    {PriceUndefined} \cup {PriceNumber(x) : x \in PriceNumbers}
    \cup {PriceString(t) : t \in PriceTexts}

-----------------------------------------------------------------------------
(* Temporal normalizer (getTimestamp) and date display (formatUploadedAt). *)

\* A raw uploadedAt: Timestamp | Date | string | null | undefined, or any
\* other value the store holds.  k is the kind; t is the time value of a
\* Date (k = "date"), of the Date that toDate() returns (k = "object") or
\* the number itself (k = "number"); s is the text (k = "string"); toDate
\* says what the toDate property of an object does: "none" (no such
\* function), "returns" (a Date), "throws", or "undefined" (it returns
\* undefined).
TsNull == [k |-> "null", t |-> Zero, s |-> <<>>, toDate |-> "none"]
TsUndefined == [k |-> "undefined", t |-> Zero, s |-> <<>>, toDate |-> "none"]
TsDate(t) == [k |-> "date", t |-> t, s |-> <<>>, toDate |-> "none"]
TsString(text) == [k |-> "string", t |-> Zero, s |-> text, toDate |-> "none"]
TsNumber(x) == [k |-> "number", t |-> x, s |-> <<>>, toDate |-> "none"]
TsObject(behaviour, t) == [k |-> "object", t |-> t, s |-> <<>>, toDate |-> behaviour]

\* !value of JavaScript.
TsFalsy(value) ==
    \/ value.k \in {"null", "undefined"}
    \/ value.k = "string" /\ value.s = <<>>
    \/ value.k = "number" /\ (IsNaN(value.t) \/ value.t = Zero)

Returned(x) == [thrown |-> FALSE, v |-> x]
Thrown(x) == [thrown |-> TRUE, v |-> x]

IsLeapYear(y) == y % 4 = 0 /\ (y % 100 # 0 \/ y % 400 = 0)
DaysInMonth(y, m) ==
    IF m = 2 THEN (IF IsLeapYear(y) THEN 29 ELSE 28)
    ELSE IF m \in {4, 6, 9, 11} THEN 30 ELSE 31

\* Days from 1970-01-01 to the civil date y-m-d.
DaysFromCivil(y, m, d) ==
    LET yy == IF m <= 2 THEN y - 1 ELSE y
        era == yy \div 400
        yoe == yy - era * 400
        doy == ((153 * (IF m > 2 THEN m - 3 ELSE m + 9) + 2) \div 5) + d - 1
        doe == yoe * 365 + (yoe \div 4) - (yoe \div 100) + doy
    IN era * 146097 + doe - 719468

\* The civil date <<y, m, d>> of a day count.
CivilFromDays(days) ==
    LET z == days + 719468
        era == z \div 146097
        doe == z - era * 146097
        yoe == (doe - (doe \div 1460) + (doe \div 36524) - (doe \div 146096)) \div 365
        doy == doe - (365 * yoe + (yoe \div 4) - (yoe \div 100))
        mp == (5 * doy + 2) \div 153
        d == doy - ((153 * mp + 2) \div 5) + 1
        m == IF mp < 10 THEN mp + 3 ELSE mp - 9
    IN <<(yoe + era * 400) + (IF m <= 2 THEN 1 ELSE 0), m, d>>

\* The instant of the UTC midnight of y-m-d, NaN when the calendar has no
\* such day.
InstantOfDate(y, m, d) ==
    IF m \in 1..12 /\ d >= 1 /\ d <= DaysInMonth(y, m)
    THEN Fin(DaysFromCivil(y, m, d)) ELSE NaN

\* new Date(text).getTime() for the date-only forms YYYY, YYYY-MM and
\* YYYY-MM-DD: the UTC midnight of that day (of the first day where the
\* text names none), and NaN, the time value of an Invalid Date, when the
\* month or the day is out of range. Every other text is taken to be one
\* that no engine reads as a date, such as "" or "soon": NaN.
DateParse(text) ==
    IF Len(text) = 4 /\ \A i \in 1..4 : IsDigit(text[i])
    THEN InstantOfDate(DigitsValue(text), 1, 1)
    ELSE IF /\ Len(text) = 7
            /\ text[5] = "-"
            /\ \A i \in {1, 2, 3, 4, 6, 7} : IsDigit(text[i])
    THEN InstantOfDate(DigitsValue(SubSeq(text, 1, 4)),
                       DigitsValue(SubSeq(text, 6, 7)), 1)
    ELSE IF /\ Len(text) = 10
            /\ text[5] = "-" /\ text[8] = "-"
            /\ \A i \in {1, 2, 3, 4, 6, 7, 9, 10} : IsDigit(text[i])
    THEN InstantOfDate(DigitsValue(SubSeq(text, 1, 4)),
                       DigitsValue(SubSeq(text, 6, 7)),
                       DigitsValue(SubSeq(text, 9, 10)))
    ELSE NaN

MonthNames ==
    << <<"J", "a", "n">>, <<"F", "e", "b">>, <<"M", "a", "r">>, <<"A", "p", "r">>,
       <<"M", "a", "y">>, <<"J", "u", "n">>, <<"J", "u", "l">>, <<"A", "u", "g">>,
       <<"S", "e", "p">>, <<"O", "c", "t">>, <<"N", "o", "v">>, <<"D", "e", "c">> >>

InvalidDateText == <<"I", "n", "v", "a", "l", "i", "d", " ", "D", "a", "t", "e">>

\* Date.prototype.toLocaleDateString('en-US', {month: 'short', day:
\* 'numeric'}), with year: 'numeric' in the earlier iteration, in UTC.
ToLocaleDateString(t, withYear) ==
    IF t.c # "fin" THEN InvalidDateText
    ELSE LET ymd == CivilFromDays(t.v)
         IN MonthNames[ymd[2]] \o <<" ">> \o NatDigits(ymd[3])
            \o (IF withYear THEN <<",", " ">> \o NatDigits(ymd[1]) ELSE <<>>)

\* value.toDate() followed by a method call on its result.
ToDateThen(value, result) ==
    CASE value.toDate = "throws" -> Thrown(result)
      [] value.toDate = "undefined" -> Thrown(result)
      [] OTHER -> Returned(result)

\* try { body } catch { return fallback }.
TryCatch(body, fallback) == IF body.thrown THEN Returned(fallback) ELSE body

\* getTimestamp with the Invalid Date of a text or of a Date guarded to 0.
getTimestampGuarded(value) ==
    LET guard(x) == IF IsNaN(x) THEN Zero ELSE x
    IN IF TsFalsy(value) THEN Returned(Zero)
       ELSE IF value.k = "date" THEN Returned(guard(value.t))
       ELSE IF value.k = "string" THEN Returned(guard(DateParse(value.s)))
       ELSE IF value.k = "object" /\ value.toDate # "none"
            THEN TryCatch(ToDateThen(value, guard(value.t)), Zero)
       ELSE Returned(Zero)

getTimestamp(value) ==
    IF TsFalsy(value) THEN Returned(Zero)
    ELSE IF value.k = "date" THEN Returned(value.t)
    ELSE IF value.k = "string" THEN Returned(DateParse(value.s))
    ELSE IF value.k = "object" /\ value.toDate # "none"
         THEN TryCatch(ToDateThen(value, value.t), Zero)
    ELSE Returned(Zero)

formatUploadedAt(value) ==
    LET withYear == iteration = "earlier"
    IN IF TsFalsy(value) THEN Returned(<<>>)
       ELSE IF value.k = "date" THEN Returned(ToLocaleDateString(value.t, withYear))
       ELSE IF value.k = "string"
            THEN Returned(ToLocaleDateString(DateParse(value.s), withYear))
       ELSE IF value.k = "object" /\ value.toDate # "none"
            THEN TryCatch(ToDateThen(value, ToLocaleDateString(value.t, withYear)),
                          <<>>)
       ELSE Returned(<<>>)

TwoDigits(n) == <<Digits[(n \div 10) + 1], Digits[(n % 10) + 1]>>
\* The text YYYY-MM-DD.
IsoText(y, m, d) == NatDigits(y) \o <<"-">> \o TwoDigits(m) \o <<"-">> \o TwoDigits(d)

\* The instants Dates and Timestamps of the model hold.
Instants == {Fin(DaysFromCivil(2024, 3, 1)), Fin(DaysFromCivil(2023, 12, 31)),
             Fin(0), Fin(-1)}

\* Date texts on which the engines agree: days that every month has, a
\* leap day, months and days of 0 or beyond 12 (Invalid Date), a year
\* alone, a year and a month, and texts that are no date.
DateTexts ==
    {IsoText(y, m, d) : y \in {2023, 2024}, m \in {0, 1, 2, 12, 13}, d \in {0, 1, 28}}
    \cup { IsoText(2024, 2, 29),
           <<"2", "0", "2", "4">>,
           <<"2", "0", "2", "4", "-", "0", "3">>,
           <<"2", "0", "2", "4", "-", "1", "3">>,
           <<>>, <<"s", "o", "o", "n">> }

\* Every raw uploadedAt handed to the normalizers.
TsInputs ==
    {TsNull, TsUndefined}
    \cup {TsString(text) : text \in DateTexts}
    \cup {TsDate(t) : t \in Instants}
    \cup {TsObject("returns", t) : t \in Instants}
    \cup {TsObject("throws", Zero), TsObject("undefined", Zero), TsObject("none", Zero)}
    \cup {TsNumber(x) : x \in {Zero, NaN, Fin(19783)}}

-----------------------------------------------------------------------------
(* Text helpers of the filter and of the name order.                       *)

\* The characters of names and date texts, in code-point order.
AsciiOrder ==
    <<" ", "-", "/", "0", "1", "2", "3", "4", "5", "6", "7", "8", "9",
      "A", "B", "a", "b", "n", "o", "s">>
CodePoint(ch) == CHOOSE i \in 1..Len(AsciiOrder) : AsciiOrder[i] = ch
CodePoints == [ch \in {AsciiOrder[i] : i \in 1..Len(AsciiOrder)} |-> CodePoint(ch)]

LowerOf(ch) == IF ch = "A" THEN "a" ELSE IF ch = "B" THEN "b" ELSE ch
\* String.prototype.toLowerCase().
toLowerCase(s) == [i \in 1..Len(s) |-> LowerOf(s[i])]

\* String.prototype.includes(needle).
includes(hay, needle) ==
    \E i \in 1..(Len(hay) + 1) :
        /\ i + Len(needle) - 1 <= Len(hay)
        /\ SubSeq(hay, i, i + Len(needle) - 1) = needle

RECURSIVE LexCompare(_, _, _)
\* -1, 0 or 1: the order of two strings, character by character, under the
\* function key from characters to numbers.
LexCompare(a, b, key) ==
    IF a = <<>> /\ b = <<>> THEN 0
    ELSE IF a = <<>> THEN -1
    ELSE IF b = <<>> THEN 1
    ELSE IF key[Head(a)] < key[Head(b)] THEN -1
    ELSE IF key[Head(a)] > key[Head(b)] THEN 1
    ELSE LexCompare(Tail(a), Tail(b), key)

\* String.prototype.localeCompare under the default collation: the letters
\* decide first, whatever their case; between strings with the same letters
\* the first difference of case decides, lower case first.
localeCompare(a, b) ==
    LET chars == {a[i] : i \in 1..Len(a)} \cup {b[i] : i \in 1..Len(b)}
        letter == [ch \in chars |-> CodePoint(LowerOf(ch))]
        case == [ch \in chars |-> IF LowerOf(ch) = ch THEN 0 ELSE 1]
        primary == LexCompare(a, b, letter)
    IN IF primary # 0 THEN primary ELSE LexCompare(a, b, case)

-----------------------------------------------------------------------------
(* The store and the documents it returns.                                 *)

Absent == [k |-> "undefined", s |-> <<>>]
Text(t) == [k |-> "string", s |-> t]
NoState == [k |-> "undefined", s |-> ""]
State(name) == [k |-> "string", s |-> name]

\* The documents of the collection: what doc.data() holds, with doc.id.
Docs ==
    { [id |-> "d1", name |-> Text(<<"A", "b">>), url |-> Text(<<"u">>),
       price |-> PriceNumber(Whole(50000)), state |-> State("Florida"),
       uploadedAt |-> TsObject("returns", Fin(DaysFromCivil(2024, 3, 1)))],
      [id |-> "d2", name |-> Text(<<"b">>), url |-> Text(<<"u">>),
       price |-> PriceString(Text120000), state |-> State("Idaho"),
       uploadedAt |-> TsObject("returns", Fin(DaysFromCivil(2023, 12, 31)))],
      [id |-> "d3", name |-> Text(<<"A", "b">>), url |-> Absent,
       price |-> PriceUndefined, state |-> State("Florida"),
       uploadedAt |-> TsNull],
      [id |-> "d4", name |-> Absent, url |-> Text(<<"u">>),
       price |-> PriceString(Negotiable), state |-> NoState,
       uploadedAt |-> TsString(<<"s", "o", "o", "n">>)],
      [id |-> "d5", name |-> Text(<<"a", "B">>), url |-> Text(<<"u">>),
       price |-> PriceNumber(Whole(-5)), state |-> State("all"),
       uploadedAt |-> TsObject("throws", Zero)],
      [id |-> "d6", name |-> Text(<<"B">>), url |-> Text(<<"u">>),
       price |-> PriceNumber(Zero), state |-> State(""),
       uploadedAt |-> TsString(IsoText(2024, 3, 1))],
      [id |-> "d7", name |-> Text(<<"a">>), url |-> Text(<<"u">>),
       price |-> PriceString(<<>>), state |-> State("florida"),
       uploadedAt |-> TsObject("returns", Fin(DaysFromCivil(2024, 3, 1)))] }

\* The store's order of uploadedAt values: by type (null, number,
\* timestamp, string, map), then by value within the type.
StoreTypeRank(value) ==
    CASE value.k = "null" -> 0
      [] value.k = "number" -> 1
      [] value.k = "object" /\ value.toDate # "none" -> 2
      [] value.k = "date" -> 2
      [] value.k = "string" -> 3
      [] OTHER -> 4

StoreLe(a, b) ==
    \/ StoreTypeRank(a) < StoreTypeRank(b)
    \/ /\ StoreTypeRank(a) = StoreTypeRank(b)
       /\ CASE StoreTypeRank(a) = 2 -> a.t.v <= b.t.v
            [] StoreTypeRank(a) = 3 ->
                 LexCompare(a.s, b.s, CodePoints) <= 0
            [] OTHER -> TRUE

\* query(listingsRef, orderBy('uploadedAt', 'desc')): the documents that
\* have the field, latest first.
IsQueryResult(docs) ==
    /\ \A i, j \in 1..Len(docs) : i # j => docs[i] # docs[j]
    /\ \A i \in 1..Len(docs) : docs[i].uploadedAt.k # "undefined"
    /\ \A i, j \in 1..Len(docs) :
         i < j => StoreLe(docs[j].uploadedAt, docs[i].uploadedAt)

Doc(id) == CHOOSE doc \in Docs : doc.id = id

\* Longer snapshots of interest beside the enumerated ones: the three
\* listings priced 50000, "$120,000" and absent; an unparseable date text
\* before two different instants; a date text before two equal instants;
\* an unparseable date text before two equal instants and an earlier one.
NotableSnapshots ==
    { <<Doc("d1"), Doc("d2"), Doc("d3")>>,
      <<Doc("d4"), Doc("d1"), Doc("d2")>>,
      <<Doc("d6"), Doc("d1"), Doc("d7")>>,
      <<Doc("d6"), Doc("d7"), Doc("d1")>>,
      <<Doc("d4"), Doc("d1"), Doc("d7"), Doc("d2")>> }

\* Every snapshot getDocs can resolve with.
Snapshots ==
    {docs \in UNION {[1..n -> Docs] : n \in 0..MaxListings} \cup NotableSnapshots :
        IsQueryResult(docs)}

\* The body of snapshot.docs.map(...).
MapDoc(doc) ==
    [id |-> doc.id,
     name |-> IF doc.name.k = "undefined" THEN <<>> ELSE doc.name.s,
     url |-> IF doc.url.k = "undefined" THEN <<"#">> ELSE doc.url.s,
     price |-> doc.price,
     state |-> doc.state,
     uploadedAt |-> IF doc.uploadedAt.k = "undefined" THEN TsNull ELSE doc.uploadedAt]

MapDocs(docs) == [i \in 1..Len(docs) |-> MapDoc(docs[i])]

-----------------------------------------------------------------------------
(* filteredListings: the filter, then the sort.                            *)

SortOptions == {"newest", "oldest", "price-low", "price-high", "name"}

\* const min = minPrice ? parseFloat(minPrice) : 0
MinBound(mn) == IF mn # <<>> THEN parseFloat(mn) ELSE Zero
\* const max = maxPrice ? parseFloat(maxPrice) : Infinity
MaxBound(mx) == IF mx # <<>> THEN parseFloat(mx) ELSE PosInf

\* The name test of the filter callback: TRUE when it returns false.
FailsName(listing, st) ==
    st # <<>> /\ ~includes(toLowerCase(listing.name), toLowerCase(st))

\* The region test of the filter callback: TRUE when it returns false.
FailsRegion(listing, ss) == ss # "all" /\ listing.state # State(ss)

\* price > 0 && (price < min || price > max)
FailsPrice(price, min, max) ==
    NumGt(price, Zero) /\ (NumLt(price, min) \/ NumGt(price, max))

\* The filter callback with the price exemption dropped (no price > 0 test).
KeepsWithoutExemption(listing, st, ss, mn, mx) ==
    IF FailsName(listing, st) THEN FALSE
    ELSE IF FailsRegion(listing, ss) THEN FALSE
    ELSE IF \/ NumLt(extractPrice(listing.price), MinBound(mn))
            \/ NumGt(extractPrice(listing.price), MaxBound(mx))
         THEN FALSE ELSE TRUE

\* The filter callback with the region test applied to the wildcard too.
KeepsWithoutWildcard(listing, st, ss, mn, mx) ==
    IF FailsName(listing, st) THEN FALSE
    ELSE IF listing.state # State(ss) THEN FALSE
    ELSE IF FailsPrice(extractPrice(listing.price), MinBound(mn), MaxBound(mx))
         THEN FALSE ELSE TRUE

\* The filter callback with a name match returning true at once, before
\* the region and price tests.
KeepsOnNameMatch(listing, st, ss, mn, mx) ==
    IF st # <<>> /\ ~FailsName(listing, st) THEN TRUE
    ELSE IF FailsName(listing, st) THEN FALSE
    ELSE IF FailsRegion(listing, ss) THEN FALSE
    ELSE IF FailsPrice(extractPrice(listing.price), MinBound(mn), MaxBound(mx))
         THEN FALSE ELSE TRUE

\* The callback of listings.filter: TRUE when the listing is kept.
Keeps(listing, st, ss, mn, mx) ==
    IF FailsName(listing, st) THEN FALSE
    ELSE IF FailsRegion(listing, ss) THEN FALSE
    ELSE IF FailsPrice(extractPrice(listing.price), MinBound(mn), MaxBound(mx))
         THEN FALSE ELSE TRUE

RECURSIVE SelectSeq5(_, _, _, _, _)
\* Array.prototype.filter with the callback Keeps.
SelectSeq5(seq, st, ss, mn, mx) ==
    IF seq = <<>> THEN <<>>
    ELSE (IF Keeps(Head(seq), st, ss, mn, mx) THEN <<Head(seq)>> ELSE <<>>)
         \o SelectSeq5(Tail(seq), st, ss, mn, mx)

\* getTimestamp(value) as the comparator uses it.
InstantOf(listing) == getTimestamp(listing.uploadedAt).v

\* The switch of the comparator, given the normalized instants ta, tb and
\* the normalized prices pa, pb of the two listings.
ComparatorCase(mode, ta, tb, pa, pb, a, b) ==
    CASE mode = "newest" -> NumSub(tb, ta)
      [] mode = "oldest" -> NumSub(ta, tb)
      [] mode = "price-low" -> NumSub(pa, pb)
      [] mode = "price-high" -> NumSub(pb, pa)
      [] mode = "name" -> Fin(localeCompare(a.name, b.name))
      [] OTHER -> Zero

\* The comparator handed to filtered.sort: a JavaScript number.
Comparator(a, b, mode) ==
    ComparatorCase(mode, InstantOf(a), InstantOf(b),
                   extractPrice(a.price), extractPrice(b.price), a, b)

\* The sign Array.prototype.sort reads off a comparator result: NaN counts
\* as 0.
SignOf(v) == IF NumLt(v, Zero) THEN -1 ELSE IF NumGt(v, Zero) THEN 1 ELSE 0
Sign(a, b, mode) == SignOf(Comparator(a, b, mode))

RECURSIVE SignRow(_, _, _, _)
\* The signs of seq[i] against seq[j], seq[j+1], ...
SignRow(seq, i, j, mode) ==
    IF j > Len(seq) THEN <<>>
    ELSE <<Sign(seq[i], seq[j], mode)>> \o SignRow(seq, i, j + 1, mode)

RECURSIVE SignTable(_, _, _)
\* The signs of every pair of elements of seq, rows i, i+1, ...
SignTable(seq, i, mode) ==
    IF i > Len(seq) THEN <<>>
    ELSE <<SignRow(seq, i, 1, mode)>> \o SignTable(seq, i + 1, mode)

\* A table of signs that is zero on the diagonal, antisymmetric, and
\* transitive for = and for <.
IsConsistentTable(s, n) ==
    /\ \A i \in 1..n : s[i][i] = 0
    /\ \A i, j \in 1..n : s[i][j] = -s[j][i]
    /\ \A i, j, k \in 1..n :
         /\ s[i][j] = 0 /\ s[j][k] = 0 => s[i][k] = 0
         /\ s[i][j] < 0 /\ s[j][k] < 0 => s[i][k] < 0
         /\ s[i][j] < 0 /\ s[j][k] = 0 => s[i][k] < 0
         /\ s[i][j] = 0 /\ s[j][k] < 0 => s[i][k] < 0

\* A consistent comparator on the elements of seq (ECMAScript, 23.1.3.30).
IsConsistent(seq, mode) == IsConsistentTable(SignTable(seq, 1, mode), Len(seq))

RECURSIVE InsertSorted(_, _, _)
\* x put into the sorted sequence after every element not greater than it.
InsertSorted(sorted, x, mode) ==
    IF sorted = <<>> THEN <<x>>
    ELSE IF Sign(Head(sorted), x, mode) <= 0
         THEN <<Head(sorted)>> \o InsertSorted(Tail(sorted), x, mode)
    ELSE <<x>> \o sorted

RECURSIVE StableSort(_, _)
\* The stable sort of seq: with a consistent comparator every conforming
\* Array.prototype.sort returns this sequence.
StableSort(seq, mode) ==
    IF seq = <<>> THEN <<>>
    ELSE InsertSorted(StableSort(SubSeq(seq, 1, Len(seq) - 1), mode),
                      seq[Len(seq)], mode)

Rearrangements(seq) ==
    {[i \in 1..Len(seq) |-> seq[f[i]]] :
        f \in {g \in [1..Len(seq) -> 1..Len(seq)] :
                  \A i, j \in 1..Len(seq) : i # j => g[i] # g[j]}}

\* The sort that leaves the array as it is.
SortResultsUnsorted(seq, mode) == {seq}

\* The sort with the comparator of each mode reversed.
SortResultsReversed(seq, mode) ==
    LET flipped == CASE mode = "newest" -> "oldest"
                     [] mode = "oldest" -> "newest"
                     [] mode = "price-low" -> "price-high"
                     [] mode = "price-high" -> "price-low"
                     [] OTHER -> mode
    IN IF IsConsistent(seq, flipped) THEN {StableSort(seq, flipped)}
       ELSE Rearrangements(seq)

\* What filtered.sort(comparator) can leave in the array: the stable order
\* when the comparator is consistent; otherwise the order is
\* implementation-defined, and any rearrangement may come out.
SortResults(seq, mode) ==
    IF IsConsistent(seq, mode) THEN {StableSort(seq, mode)}
    ELSE Rearrangements(seq)

\* The values filteredListings can take for the given dependencies.
FilteredListings(ls, st, ss, mn, mx, mode) ==
    SortResults(SelectSeq5(ls, st, ss, mn, mx), mode)

\* states: the distinct non-empty state labels of the listings.
StatesOf(ls) ==
    {ls[i].state.s : i \in {j \in 1..Len(ls) : ls[j].state.k = "string" /\ ls[j].state.s # ""}}

-----------------------------------------------------------------------------
(* The insights of the current iteration: priceDistribution,               *)
(* stateDistribution and the average price.                                *)

\* ranges: label, min and max of the five buckets.
Ranges ==
    << [label |-> "<$50k", min |-> Whole(0), max |-> Whole(50000)],
       [label |-> "$50k-$100k", min |-> Whole(50000), max |-> Whole(100000)],
       [label |-> "$100k-$250k", min |-> Whole(100000), max |-> Whole(250000)],
       [label |-> "$250k-$500k", min |-> Whole(250000), max |-> Whole(500000)],
       [label |-> ">$500k", min |-> Whole(500000), max |-> PosInf] >>

\* The range test with the bounds the other way: above min, up to max.
InRangeUpToMax(price, r) == NumGt(price, r.min) /\ NumLe(price, r.max)

\* price >= r.min && price < r.max
InRange(price, r) == NumGe(price, r.min) /\ NumLt(price, r.max)

\* ranges.find(...): the index of the first range that holds the price, 0
\* when find returns undefined.
FindRange(price) ==
    IF \E i \in 1..Len(Ranges) : InRange(price, Ranges[i])
    THEN CHOOSE i \in 1..Len(Ranges) :
             /\ InRange(price, Ranges[i])
             /\ \A j \in 1..(i - 1) : ~InRange(price, Ranges[j])
    ELSE 0

\* The test before the find, left out.
IsCountedAlways(price) == TRUE

\* if (price > 0)
IsCounted(price) == NumGt(price, Zero)

\* The bucket of a price: the index of the range whose count it raises, 0
\* when it raises none.
BucketOf(price) == IF IsCounted(price) THEN FindRange(price) ELSE 0

RECURSIVE CountPrices(_, _)
\* listings.forEach(...): the counts of the ranges after the listings ls,
\* starting from counts.
CountPrices(ls, counts) ==
    IF ls = <<>> THEN counts
    ELSE CountPrices(Tail(ls),
             [i \in 1..Len(counts) |->
                 IF i = BucketOf(extractPrice(Head(ls).price))
                 THEN counts[i] + 1 ELSE counts[i]])

RECURSIVE Largest(_)
\* The largest of a sequence of counts, 0 for none.
Largest(counts) ==
    IF counts = <<>> THEN 0
    ELSE IF Head(counts) > Largest(Tail(counts)) THEN Head(counts)
    ELSE Largest(Tail(counts))

\* Math.max(...counts) without the 1.
MaxCountUnguarded(counts) == Largest(counts)

\* Math.max(...counts, 1)
MaxCount(counts) == IF Largest(counts) > 1 THEN Largest(counts) ELSE 1

\* (count / maxCount) * 100, to the nearest 1/Scale.
Percentage(count, maxCount) ==
    IF maxCount = 0 THEN (IF count = 0 THEN NaN ELSE PosInf)
    ELSE Fin((2 * count * 100 * Scale + maxCount) \div (2 * maxCount))

\* The ranges with their counts and percentages.
WithPercentages(counts, maxCount) ==
    [i \in 1..Len(Ranges) |->
        [label |-> Ranges[i].label, min |-> Ranges[i].min, max |-> Ranges[i].max,
         count |-> counts[i], percentage |-> Percentage(counts[i], maxCount)]]

PricesCounted(counts) == WithPercentages(counts, MaxCount(counts))

priceDistribution(ls) ==
    PricesCounted(CountPrices(ls, [i \in 1..Len(Ranges) |-> 0]))

\* if (listing.state): the state is present and not the empty text.
HasState(listing) == listing.state.k = "string" /\ listing.state.s # ""

\* stateCounts[key] = 1 whatever it held.
BumpOverwriting(entries, key) ==
    IF \E i \in 1..Len(entries) : entries[i].state = key
    THEN [i \in 1..Len(entries) |->
             IF entries[i].state = key THEN [state |-> key, count |-> 1]
             ELSE entries[i]]
    ELSE Append(entries, [state |-> key, count |-> 1])

\* stateCounts[key] = (stateCounts[key] || 0) + 1, on the entries of
\* stateCounts in the order their keys were first set.
Bump(entries, key) ==
    IF \E i \in 1..Len(entries) : entries[i].state = key
    THEN [i \in 1..Len(entries) |->
             IF entries[i].state = key
             THEN [state |-> key, count |-> entries[i].count + 1]
             ELSE entries[i]]
    ELSE Append(entries, [state |-> key, count |-> 1])

RECURSIVE StateCounts(_, _)
\* listings.forEach(...): Object.entries(stateCounts) after the listings
\* ls. The entries come in the order of insertion: no state label of the
\* model is the text of an integer.
StateCounts(ls, entries) ==
    IF ls = <<>> THEN entries
    ELSE StateCounts(Tail(ls),
             IF HasState(Head(ls)) THEN Bump(entries, Head(ls).state.s)
             ELSE entries)

RECURSIVE InsertByCount(_, _)
\* e put after every entry whose count is not smaller.
InsertByCount(sorted, e) ==
    IF sorted = <<>> THEN <<e>>
    ELSE IF Head(sorted).count >= e.count
         THEN <<Head(sorted)>> \o InsertByCount(Tail(sorted), e)
    ELSE <<e>> \o sorted

RECURSIVE InsertByCountAscending(_, _)
InsertByCountAscending(sorted, e) ==
    IF sorted = <<>> THEN <<e>>
    ELSE IF Head(sorted).count <= e.count
         THEN <<Head(sorted)>> \o InsertByCountAscending(Tail(sorted), e)
    ELSE <<e>> \o sorted

RECURSIVE SortedByCountAscending(_)
\* .sort(([, a], [, b]) => a - b): the smallest count first.
SortedByCountAscending(entries) ==
    IF entries = <<>> THEN <<>>
    ELSE InsertByCountAscending(
             SortedByCountAscending(SubSeq(entries, 1, Len(entries) - 1)),
             entries[Len(entries)])

RECURSIVE SortedByCount(_)
\* .sort(([, a], [, b]) => b - a): the largest count first; the comparator
\* is consistent, so the sort is the stable one.
SortedByCount(entries) ==
    IF entries = <<>> THEN <<>>
    ELSE InsertByCount(SortedByCount(SubSeq(entries, 1, Len(entries) - 1)),
                       entries[Len(entries)])

\* The number of regions kept: slice(0, 10).
TopRegions == 10

\* .slice(0, 10)
Slice(entries) ==
    SubSeq(entries, 1, IF Len(entries) < TopRegions THEN Len(entries) ELSE TopRegions)

CountsOf(entries) == [i \in 1..Len(entries) |-> entries[i].count]

\* sorted.map(...): state, count and percentage of the kept entries.
RegionsCounted(sorted, maxCount) ==
    [i \in 1..Len(sorted) |->
        [state |-> sorted[i].state, count |-> sorted[i].count,
         percentage |-> Percentage(sorted[i].count, maxCount)]]

RegionsKept(sorted) == RegionsCounted(sorted, MaxCount(CountsOf(sorted)))

stateDistribution(ls) == RegionsKept(Slice(SortedByCount(StateCounts(ls, <<>>))))

RECURSIVE SumPrices(_, _)
\* listings.reduce((sum, l) => sum + extractPrice(l.price), 0)
SumPrices(ls, sum) ==
    IF ls = <<>> THEN sum
    ELSE SumPrices(Tail(ls), NumAdd(sum, extractPrice(Head(ls).price)))

\* listings.filter((l) => extractPrice(l.price) > 0).length
PositiveCount(ls) ==
    Cardinality({i \in 1..Len(ls) : NumGt(extractPrice(ls[i].price), Zero)})

\* The text of the "Avg Price" card.
averagePrice(ls) ==
    formatPrice(PriceNumber(NumDiv(SumPrices(ls, Zero), PositiveCount(ls))))

\* The insights computed from the shown listings.
InsightsSourceShown(ls, shown) == shown

\* The sequence the insights are computed from: listings, the dependency
\* of their memos.
InsightsSource(ls, shown) == ls

\* What the insights panel shows for a dataset.
InsightsOf(ls) ==
    [prices |-> priceDistribution(ls),
     regions |-> stateDistribution(ls),
     states |-> StatesOf(ls),
     total |-> Len(ls),
     average |-> averagePrice(ls)]

\* The earlier iteration has the states and the total, and no insights
\* panel.
InsightsFor(it, ls) ==
    IF it = "current" THEN InsightsOf(ls)
    ELSE [prices |-> <<>>, regions |-> <<>>, states |-> StatesOf(ls),
          total |-> Len(ls), average |-> <<>>]

-----------------------------------------------------------------------------
(* The application: the one-shot fetch and the user's actions.             *)

NoError == [set |-> FALSE, msg |-> ""]
ErrorText(msg) == [set |-> TRUE, msg |-> msg]

\* What the rejected fetch throws: an Error with a message, an Error whose
\* message is empty, or a value without a message.
Exceptions ==
    { [hasMessage |-> TRUE, message |-> "Missing or insufficient permissions."],
      [hasMessage |-> TRUE, message |-> ""],
      [hasMessage |-> FALSE, message |-> ""] }

\* The texts typed into the search box.
SearchTerms == {<<>>, <<"B">>}
\* The texts the minimum and maximum price inputs hand to their handlers:
\* e.target.value goes to the state as it is. A number input reports the
\* typed text itself where the number state is not implemented and the
\* input falls back to a text field.
MinPriceTexts ==
    {<<>>, <<"6", "0", "0", "0", "0">>, <<"a", "b", "c">>,
     <<"6", "0", "0", "0", "0", "x">>}
MaxPriceTexts == {<<>>, <<"1", "0", "0", "0", "0", "0">>, <<"a", "b", "c">>}

Init ==
    /\ iteration \in {"current", "earlier"}
    /\ listings = <<>>
    /\ loading = TRUE
    /\ error = NoError
    /\ activeView = "dashboard"
    /\ searchTerm = <<>>
    /\ selectedState = "all"
    /\ minPrice = <<>>
    /\ maxPrice = <<>>
    /\ sortBy = "newest"
    /\ fetchPc = "pending"
    /\ view = <<>>
    /\ insights = InsightsFor(iteration, <<>>)
    /\ priceIn = PriceUndefined
    /\ priceCall = {}
    /\ priceNum = Zero
    /\ priceText = <<>>
    /\ tsIn = TsNull
    /\ tsCall = {}
    /\ tsNum = Returned(Zero)
    /\ tsText = Returned(<<>>)

\* The insights after an update: their memos compute them again when the
\* sequence they depend on has changed.
RenderInsights ==
    IF InsightsSource(listings', view') = InsightsSource(listings, view)
    THEN insights' = insights
    ELSE insights' = InsightsFor(iteration', InsightsSource(listings', view'))

\* The render after an update: useMemo computes filteredListings again when
\* one of its dependencies has changed, and keeps its value otherwise.
Render ==
    /\ IF <<listings', searchTerm', selectedState', minPrice', maxPrice', sortBy'>>
          = <<listings, searchTerm, selectedState, minPrice, maxPrice, sortBy>>
       THEN view' = view
       ELSE view' \in FilteredListings(listings', searchTerm', selectedState',
                                       minPrice', maxPrice', sortBy')
    /\ RenderInsights

\* fetchListings: getDocs resolves and the documents are mapped.
FetchSucceeds ==
    /\ fetchPc = "pending"
    /\ \E docs \in Snapshots : listings' = MapDocs(docs)
    /\ loading' = FALSE
    /\ fetchPc' = "settled"
    /\ UNCHANGED <<iteration, error, activeView, searchTerm, selectedState,
                   minPrice, maxPrice, sortBy, priceVars, tsVars>>
    /\ Render

\* fetchListings with setLoading(false) at the end of the try block instead
\* of in a finally block.
FetchFailsStillLoading ==
    /\ fetchPc = "pending"
    /\ \E e \in Exceptions :
         error' = ErrorText(IF e.hasMessage THEN e.message
                            ELSE "Failed to load listings")
    /\ fetchPc' = "settled"
    /\ UNCHANGED <<iteration, listings, loading, activeView, searchTerm,
                   selectedState, minPrice, maxPrice, sortBy, priceVars, tsVars>>
    /\ Render

\* fetchListings with setListings called on the documents mapped so far
\* before the exception reaches the catch.
FetchFailsKeepingPartial ==
    /\ fetchPc = "pending"
    /\ \E docs \in Snapshots : listings' = MapDocs(docs)
    /\ \E e \in Exceptions :
         error' = ErrorText(IF e.hasMessage THEN e.message
                            ELSE "Failed to load listings")
    /\ loading' = FALSE
    /\ fetchPc' = "settled"
    /\ UNCHANGED <<iteration, activeView, searchTerm, selectedState,
                   minPrice, maxPrice, sortBy, priceVars, tsVars>>
    /\ Render

\* fetchListings: getDocs rejects, or doc.data() throws during the mapping.
FetchFails ==
    /\ fetchPc = "pending"
    /\ \E e \in Exceptions :
         error' = ErrorText(IF e.hasMessage THEN e.message
                            ELSE "Failed to load listings")
    /\ loading' = FALSE
    /\ fetchPc' = "settled"
    /\ UNCHANGED <<iteration, listings, activeView, searchTerm, selectedState,
                   minPrice, maxPrice, sortBy, priceVars, tsVars>>
    /\ Render

SetSearchTerm ==
    /\ \E text \in SearchTerms : searchTerm' = text
    /\ UNCHANGED <<iteration, listings, loading, error, activeView, selectedState,
                   minPrice, maxPrice, sortBy, fetchPc, priceVars, tsVars>>
    /\ Render

\* The select offers "all" and every label of states.
SetSelectedState ==
    /\ \E label \in {"all"} \cup StatesOf(listings) : selectedState' = label
    /\ UNCHANGED <<iteration, listings, loading, error, activeView, searchTerm,
                   minPrice, maxPrice, sortBy, fetchPc, priceVars, tsVars>>
    /\ Render

SetMinPrice ==
    /\ \E text \in MinPriceTexts : minPrice' = text
    /\ UNCHANGED <<iteration, listings, loading, error, activeView, searchTerm,
                   selectedState, maxPrice, sortBy, fetchPc, priceVars, tsVars>>
    /\ Render

\* setMaxPrice with the maximum price input rendered in both iterations.
SetMaxPriceInBothIterations ==
    /\ \E text \in MaxPriceTexts : maxPrice' = text
    /\ UNCHANGED <<iteration, listings, loading, error, activeView, searchTerm,
                   selectedState, minPrice, sortBy, fetchPc, priceVars, tsVars>>
    /\ Render

\* Only the earlier iteration renders the maximum price input.
SetMaxPrice ==
    /\ iteration = "earlier"
    /\ \E text \in MaxPriceTexts : maxPrice' = text
    /\ UNCHANGED <<iteration, listings, loading, error, activeView, searchTerm,
                   selectedState, minPrice, sortBy, fetchPc, priceVars, tsVars>>
    /\ Render

\* setSortBy with the comparator applied to listings itself
\* (listings.sort(...) with no copy made first).
SetSortBySortingInPlace ==
    /\ \E mode \in SortOptions :
         /\ sortBy' = mode
         /\ listings' \in SortResults(listings, mode)
    /\ UNCHANGED <<iteration, loading, error, activeView, searchTerm,
                   selectedState, minPrice, maxPrice, fetchPc, priceVars, tsVars>>
    /\ view' \in FilteredListings(listings', searchTerm', selectedState',
                                  minPrice', maxPrice', sortBy')
    /\ RenderInsights

SetSortBy ==
    /\ \E mode \in SortOptions : sortBy' = mode
    /\ UNCHANGED <<iteration, listings, loading, error, activeView, searchTerm,
                   selectedState, minPrice, maxPrice, fetchPc, priceVars, tsVars>>
    /\ Render

\* Only the current iteration has the sidebar with the two views.
SetActiveView ==
    /\ iteration = "current"
    /\ \E v \in {"dashboard", "settings"} : activeView' = v
    /\ UNCHANGED <<iteration, listings, loading, error, searchTerm, selectedState,
                   minPrice, maxPrice, sortBy, fetchPc, priceVars, tsVars>>
    /\ Render

\* hasActiveFilters of the earlier iteration.
hasActiveFilters ==
    \/ searchTerm # <<>>
    \/ selectedState # "all"
    \/ minPrice # <<>>
    \/ maxPrice # <<>>
    \/ sortBy # "newest"

\* The red box with the error text: the branch `error ?` after `loading ?`
\* in the current iteration, `error &&` in the earlier one. A string is
\* truthy when it is not empty.
ErrorShown ==
    IF iteration = "current" THEN ~loading /\ error.msg # ""
    ELSE error.msg # ""

\* The grid of listing cards: the last branch of the conditional.
GridShown == ~loading /\ error.msg = "" /\ view # <<>>

\* The "No listings found" panel, which holds a reset button.
NoListingsPanelShown == ~loading /\ error.msg = "" /\ view = <<>>

\* The setters of resetFilters without setSortBy('newest').
ResetCriteriaKeepingSort ==
    /\ NoListingsPanelShown \/ (iteration = "earlier" /\ hasActiveFilters)
    /\ searchTerm' = <<>>
    /\ selectedState' = "all"
    /\ minPrice' = <<>>
    /\ maxPrice' = <<>>
    /\ UNCHANGED <<iteration, listings, loading, error, activeView, sortBy,
                   fetchPc, priceVars, tsVars>>

\* The five setters of resetFilters, called from the button of the empty
\* panel or, in the earlier iteration, from the "Reset All" button shown
\* while hasActiveFilters.
ResetCriteria ==
    /\ NoListingsPanelShown \/ (iteration = "earlier" /\ hasActiveFilters)
    /\ searchTerm' = <<>>
    /\ selectedState' = "all"
    /\ minPrice' = <<>>
    /\ maxPrice' = <<>>
    /\ sortBy' = "newest"
    /\ UNCHANGED <<iteration, listings, loading, error, activeView, fetchPc,
                   priceVars, tsVars>>

\* resetFilters that also clears the error and issues the fetch again.
ResetFiltersRefetching ==
    /\ NoListingsPanelShown \/ (iteration = "earlier" /\ hasActiveFilters)
    /\ searchTerm' = <<>>
    /\ selectedState' = "all"
    /\ minPrice' = <<>>
    /\ maxPrice' = <<>>
    /\ sortBy' = "newest"
    /\ error' = NoError
    /\ loading' = TRUE
    /\ fetchPc' = "pending"
    /\ UNCHANGED <<iteration, listings, activeView, priceVars, tsVars>>
    /\ Render

\* resetFilters and the render that follows it.
ResetFilters ==
    /\ ResetCriteria
    /\ Render

Next ==
    \/ FetchSucceeds
    \/ FetchFails
    \/ SetSearchTerm
    \/ SetSelectedState
    \/ SetMinPrice
    \/ SetMaxPrice
    \/ SetSortBy
    \/ SetActiveView
    \/ ResetFilters

Spec == Init /\ [][Next]_vars

\* The promise of getDocs settles: the network layer resolves or rejects
\* it, whatever the user does meanwhile. FetchFails is enabled exactly while
\* the fetch is pending, and a step of FetchSucceeds or of FetchFails ends
\* that, so the condition excludes the behaviours in which the fetch stays
\* pending for ever, and no other.
SpecLive == Spec /\ WF_vars(FetchFails)

-----------------------------------------------------------------------------
(* Properties of the filter, on every state of the application.            *)

Range(seq) == {seq[i] : i \in 1..Len(seq)}

\* The same listings, each once: a is a rearrangement of b (the listings of
\* a dataset differ in their id).
SameListings(a, b) == Len(a) = Len(b) /\ Range(a) = Range(b)

\* C1: a listing whose normalized price is 0 is shown whenever it passes the
\* name rule and the region rule, whatever minPrice and maxPrice are.
C1_ExemptFromPriceRule ==
    \A i \in 1..Len(listings) :
        /\ extractPrice(listings[i].price) = Zero
        /\ ~FailsName(listings[i], searchTerm)
        /\ ~FailsRegion(listings[i], selectedState)
        => listings[i] \in Range(view)

\* A minimum of 60000 that hides a priced listing while a listing whose
\* normalized price is 0 stays shown.
C1_Witness ==
    /\ minPrice = <<"6", "0", "0", "0", "0">>
    /\ \E i \in 1..Len(listings) :
         /\ extractPrice(listings[i].price) = Zero
         /\ listings[i] \in Range(view)
    /\ \E j \in 1..Len(listings) :
         /\ ~FailsName(listings[j], searchTerm)
         /\ ~FailsRegion(listings[j], selectedState)
         /\ listings[j] \notin Range(view)

\* The bounds as the price rule is stated: the number in the text, 0 and
\* +infinity when the text is unset.
StatedMin == IF minPrice = <<>> THEN Zero ELSE parseFloat(minPrice)
StatedMax == IF maxPrice = <<>> THEN PosInf ELSE parseFloat(maxPrice)

\* C2: every shown listing whose normalized price p is not 0, a negative p
\* included, has min <= p <= max (for bounds that are numbers).
C2_PriceWithinRange ==
    ~IsNaN(StatedMin) /\ ~IsNaN(StatedMax) =>
        \A k \in 1..Len(view) :
            extractPrice(view[k].price) # Zero =>
                /\ NumLe(StatedMin, extractPrice(view[k].price))
                /\ NumLe(extractPrice(view[k].price), StatedMax)

\* A text that is a number: digits, with an optional fraction.
IsNumberText(s) ==
    /\ s # <<>>
    /\ IsDigit(Head(s))
    /\ \A i \in 1..Len(s) : IsDigit(s[i]) \/ s[i] = "."
    /\ Cardinality({i \in 1..Len(s) : s[i] = "."}) <= 1

Malformed(s) == s # <<>> /\ ~IsNumberText(s)

\* C3: with a minPrice or maxPrice text that is not a number, the shown
\* listings are those shown with that bound unset, and the bound compared
\* with the prices is not NaN.
C3_MalformedBoundIsDefault ==
    /\ Malformed(minPrice) =>
         /\ view \in FilteredListings(listings, searchTerm, selectedState,
                                      <<>>, maxPrice, sortBy)
         /\ ~IsNaN(MinBound(minPrice))
    /\ Malformed(maxPrice) =>
         /\ view \in FilteredListings(listings, searchTerm, selectedState,
                                      minPrice, <<>>, sortBy)
         /\ ~IsNaN(MaxBound(maxPrice))

\* The criteria of the state with those outside the set c at their defaults.
Only(c, criterion, value, default) == IF criterion \in c THEN value ELSE default

\* The filter with the criteria of c alone keeps the listing.
KeptBy(c, listing) ==
    Keeps(listing,
          Only(c, "name", searchTerm, <<>>),
          Only(c, "region", selectedState, "all"),
          Only(c, "min", minPrice, <<>>),
          Only(c, "max", maxPrice, <<>>))

\* The listings the filter returns with the criteria of c alone.
FilteredBy(c) == {listings[i] : i \in {j \in 1..Len(listings) : KeptBy(c, listings[j])}}

Criteria == {"name", "region", "min", "max"}

\* C4: for every split of the criteria of the state into two sets c1 and
\* c2, every shown listing is a listing of the dataset that is returned
\* with c1 alone and is returned with c2 alone.
C4_FilterComposition ==
    \A c1 \in SUBSET Criteria :
        \A k \in 1..Len(view) :
            /\ view[k] \in Range(listings)
            /\ KeptBy(c1, view[k])
            /\ KeptBy(Criteria \ c1, view[k])

\* A name criterion and a minimum that each hide a listing the other keeps,
\* and a listing that passes both.
C4_Witness ==
    /\ searchTerm # <<>>
    /\ minPrice # <<>>
    /\ view # <<>>
    /\ Range(view) # FilteredBy({"name"})
    /\ Range(view) # FilteredBy({"min"})
    /\ Range(view) = FilteredBy({"name"}) \cap FilteredBy({"min"})

\* C5: with the region selector at "all" and the name and price criteria at
\* their defaults, every listing of the dataset is shown once and nothing
\* else is.
C5_WildcardNoOp ==
    /\ selectedState = "all"
    /\ searchTerm = <<>>
    /\ minPrice = <<>>
    /\ maxPrice = <<>>
    => SameListings(view, listings)

\* The defaults over a dataset of several listings, one without a state,
\* after the order has been changed.
C5_Witness ==
    /\ selectedState = "all" /\ searchTerm = <<>>
    /\ minPrice = <<>> /\ maxPrice = <<>>
    /\ sortBy = "name"
    /\ Len(listings) >= 2
    /\ \E i \in 1..Len(listings) : listings[i].state.k = "undefined"
    /\ SameListings(view, listings)

\* The order of two neighbours under the key of the mode.
InOrder(a, b, mode) ==
    CASE mode = "newest" -> NumGe(InstantOf(a), InstantOf(b))
      [] mode = "oldest" -> NumLe(InstantOf(a), InstantOf(b))
      [] mode = "price-low" -> NumLe(extractPrice(a.price), extractPrice(b.price))
      [] mode = "price-high" -> NumGe(extractPrice(a.price), extractPrice(b.price))
      [] mode = "name" -> localeCompare(a.name, b.name) <= 0
      [] OTHER -> TRUE

\* C10: in each sort mode the shown sequence is a rearrangement of the
\* listings that pass the filter, and every two neighbours are in the order
\* of the mode's key.
C10_SortOrder ==
    /\ SameListings(view, SelectSeq5(listings, searchTerm, selectedState,
                                     minPrice, maxPrice))
    /\ \A k \in 1..(Len(view) - 1) : InOrder(view[k], view[k + 1], sortBy)

C12_SourceUnchanged ==
    [][listings' # listings => fetchPc = "pending" /\ fetchPc' = "settled"]_vars

\* A view in another order than the dataset it was computed from.
C12_Witness ==
    /\ fetchPc = "settled"
    /\ sortBy = "name"
    /\ SameListings(view, listings)
    /\ view # listings

\* The dataset of three listings priced 50000, "$120,000" and absent.
Scenario == MapDocs(<<Doc("d1"), Doc("d2"), Doc("d3")>>)

\* C20: on the three listings priced 50000 (Florida), "$120,000" (Idaho)
\* and absent (Florida), a minPrice of 60000 shows exactly the 2nd and the
\* 3rd, and price-low puts the 3rd before the 2nd; under price-low every
\* shown listing of normalized price 0 precedes every shown listing of
\* positive price.
C20_ScenarioAndUnknownFirst ==
    /\ /\ listings = Scenario
       /\ minPrice = <<"6", "0", "0", "0", "0">>
       /\ searchTerm = <<>> /\ selectedState = "all" /\ maxPrice = <<>>
       => /\ SameListings(view, <<Scenario[2], Scenario[3]>>)
          /\ sortBy = "price-low" => view = <<Scenario[3], Scenario[2]>>
    /\ sortBy = "price-low" =>
         \A i, j \in 1..Len(view) :
             /\ extractPrice(view[i].price) = Zero
             /\ NumGt(extractPrice(view[j].price), Zero)
             => i < j

C20_Witness ==
    /\ listings = Scenario
    /\ minPrice = <<"6", "0", "0", "0", "0">>
    /\ searchTerm = <<>> /\ selectedState = "all" /\ maxPrice = <<>>
    /\ sortBy = "price-low"
    /\ view = <<Scenario[3], Scenario[2]>>

\* C18: a step that leaves the dataset alone, whatever it does to the
\* search, the region, the price bounds or the sort mode, leaves the price
\* distribution, the region distribution, the list of regions and the total
\* alone.
C18_InsightsIndependentOfFilters ==
    [][listings' = listings =>
          /\ insights'.prices = insights.prices
          /\ insights'.regions = insights.regions
          /\ insights'.states = insights.states
          /\ insights'.total = insights.total]_vars

\* The filters hide a listing of the dataset, and the insights count it.
C18_Witness ==
    /\ iteration = "current"
    /\ fetchPc = "settled"
    /\ selectedState # "all"
    /\ minPrice # <<>>
    /\ sortBy # "newest"
    /\ Len(view) < Len(listings)
    /\ insights.total = Len(listings)
    /\ Cardinality(insights.states) > Len(view)
    /\ \E i \in 1..Len(insights.regions) :
          insights.regions[i].state # selectedState

\* The messages a failed fetch can leave: the message of the exception, or
\* the fallback text when the exception has none.
FailureMessages ==
    {e.message : e \in {x \in Exceptions : x.hasMessage}}
    \cup {"Failed to load listings"}

\* C21: no state holds an error and listings together; the step in which
\* the fetch settles either sets error to a failure message and leaves
\* listings empty, or leaves error null.
C21_NoPartialData ==
    /\ [](~(error.set /\ listings # <<>>))
    /\ [](error.set => error.msg \in FailureMessages)
    /\ [][(fetchPc = "pending" /\ fetchPc' = "settled") =>
            \/ error'.set /\ listings' = <<>>
            \/ error' = NoError /\ error = NoError]_vars

\* The fetch has failed with an exception without message.
C21_Witness ==
    /\ fetchPc = "settled"
    /\ error = ErrorText("Failed to load listings")
    /\ listings = <<>>
    /\ ~loading

\* C22: the fetch never becomes pending again; an error, once set, stays as
\* it is; listings, once the fetch has settled, stays as it is.
C22_OneShot ==
    /\ [][fetchPc' # fetchPc => fetchPc = "pending" /\ fetchPc' = "settled"]_vars
    /\ [][error.set => error' = error]_vars
    /\ [][fetchPc = "settled" => listings' = listings]_vars

\* After the failed fetch the user has changed criteria and is on the
\* settings view: the error is still there and nothing is pending.
C22_Witness ==
    /\ fetchPc = "settled"
    /\ error.set
    /\ searchTerm # <<>>
    /\ minPrice # <<>>
    /\ sortBy # "newest"
    /\ activeView = "settings"

\* The place of a shown listing in the dataset.
PlaceOf(listing) == CHOOSE k \in 1..Len(listings) : listings[k] = listing

\* Two listings with the same key in the mode.
SameKey(a, b, mode) ==
    CASE mode \in {"newest", "oldest"} -> NumEq(InstantOf(a), InstantOf(b))
      [] mode \in {"price-low", "price-high"} ->
           NumEq(extractPrice(a.price), extractPrice(b.price))
      [] OTHER -> a.name = b.name

C24_LoadingLifecycle ==
    /\ loading = TRUE
    /\ [][(fetchPc = "pending" /\ fetchPc' = "settled") => ~loading']_vars
    /\ [][~loading => ~loading']_vars
    /\ [](loading <=> fetchPc = "pending")
    /\ <>[](~loading)

\* The fetch has settled after the user changed criteria while it was
\* pending or afterwards.
C24_Witness ==
    /\ fetchPc = "settled"
    /\ ~loading
    /\ searchTerm # <<>>
    /\ minPrice # <<>>

\* C25: the grid is shown only when loading is false, error is null and
\* the shown sequence is not empty; the "No listings found" panel only when
\* loading is false and error is null; the grid and the error text are
\* never shown together.
C25_DisplayGuards ==
    /\ GridShown => (~loading /\ ~error.set /\ view # <<>>)
    /\ NoListingsPanelShown => (~loading /\ ~error.set)
    /\ ~(GridShown /\ ErrorShown)

\* The listings of the dataset whose state is the text r, in dataset order.
ListingsOfRegion(r) == SelectSeq(listings, LAMBDA l : l.state = State(r))

\* C26: with a label of the region list selected and the other criteria at
\* their defaults, the shown listings are the listings whose state is that
\* label, each once.
C26_RegionSelectorSound ==
    (/\ selectedState \in StatesOf(listings)
     /\ searchTerm = <<>> /\ minPrice = <<>> /\ maxPrice = <<>>
     /\ sortBy = "newest")
        => SameListings(view, ListingsOfRegion(selectedState))

\* The five criteria at their defaults.
CriteriaAtDefaults ==
    <<searchTerm, selectedState, minPrice, maxPrice, sortBy>>
        = << <<>>, "all", <<>>, <<>>, "newest" >>

\* C27: a step of resetFilters leaves the five criteria at their defaults
\* and listings, loading and error as they were; after it every listing of
\* the dataset is shown and hasActiveFilters is false. hasActiveFilters is
\* true exactly when a criterion is not at its default.
C27_ResetFilters ==
    /\ [][ResetCriteria =>
            /\ CriteriaAtDefaults'
            /\ listings' = listings /\ loading' = loading /\ error' = error
            /\ SameListings(view', listings')
            /\ ~hasActiveFilters']_vars
    /\ [](hasActiveFilters <=> ~CriteriaAtDefaults)

\* In the earlier iteration every criterion is away from its default and
\* the filters hide listings of the dataset: the "Reset All" button is there.
C27_Witness ==
    /\ iteration = "earlier"
    /\ fetchPc = "settled"
    /\ searchTerm # <<>> /\ selectedState # "all" /\ minPrice # <<>>
    /\ maxPrice # <<>> /\ sortBy # "newest"
    /\ hasActiveFilters
    /\ Len(view) < Len(listings)

\* C28: in the current iteration maxPrice is always the empty text, the
\* upper bound of the price test is +Infinity, and every listing that
\* passes the name test, the region test and the lower bound is shown.
C28_NoMaximumInCurrent ==
    iteration = "current" =>
        /\ maxPrice = <<>>
        /\ MaxBound(maxPrice) = PosInf
        /\ \A k \in 1..Len(listings) :
              (/\ ~FailsName(listings[k], searchTerm)
               /\ ~FailsRegion(listings[k], selectedState)
               /\ ~NumLt(extractPrice(listings[k].price), MinBound(minPrice)))
                  => listings[k] \in Range(view)

\* In the current iteration a minimum is set and a listing priced above
\* the maximum that the earlier iteration offers is shown.
C28_Witness ==
    /\ iteration = "current"
    /\ fetchPc = "settled"
    /\ minPrice # <<>>
    /\ maxPrice = <<>>
    /\ \E k \in 1..Len(view) :
          NumGt(extractPrice(view[k].price), parseFloat(<<"1", "0", "0", "0", "0", "0">>))

-----------------------------------------------------------------------------
(* The price normalizers applied to one raw price.                         *)

\* The application before any update, in the current iteration.
AppIdle ==
    /\ iteration = "current"
    /\ listings = <<>>
    /\ loading = TRUE
    /\ error = NoError
    /\ activeView = "dashboard"
    /\ searchTerm = <<>>
    /\ selectedState = "all"
    /\ minPrice = <<>>
    /\ maxPrice = <<>>
    /\ sortBy = "newest"
    /\ fetchPc = "pending"
    /\ view = <<>>
    /\ insights = InsightsFor(iteration, <<>>)

PriceIdle ==
    /\ priceIn = PriceUndefined
    /\ priceCall = {}
    /\ priceNum = Zero
    /\ priceText = <<>>

TsIdle ==
    /\ tsIn = TsNull
    /\ tsCall = {}
    /\ tsNum = Returned(Zero)
    /\ tsText = Returned(<<>>)

InitPrice ==
    /\ AppIdle
    /\ TsIdle
    /\ priceIn \in PriceInputs
    /\ priceCall = {}
    /\ priceNum = Zero
    /\ priceText = <<>>

CallExtractPrice ==
    /\ "extractPrice" \notin priceCall
    /\ priceNum' = extractPrice(priceIn)
    /\ priceCall' = priceCall \cup {"extractPrice"}
    /\ UNCHANGED <<priceIn, priceText, appVars, tsVars>>

CallFormatPrice ==
    /\ "formatPrice" \notin priceCall
    /\ priceText' = formatPrice(priceIn)
    /\ priceCall' = priceCall \cup {"formatPrice"}
    /\ UNCHANGED <<priceIn, priceNum, appVars, tsVars>>

NextPrice == CallExtractPrice \/ CallFormatPrice

SpecPrice == InitPrice /\ [][NextPrice]_vars

-----------------------------------------------------------------------------
(* C8, C9: the price normalizer and the price display.                     *)

RECURSIVE NumeralValue(_, _, _)
\* The value, in units of 1/Scale, that the digits of a decorated numeral
\* denote: "$" and "," are skipped, digits before the point count in whole
\* units, the k-th digit after it in units of 10^-k.
NumeralValue(s, acc, place) ==
    IF s = <<>> THEN acc
    ELSE IF Head(s) = "." THEN NumeralValue(Tail(s), acc, Scale \div 10)
    ELSE IF ~IsDigit(Head(s)) THEN NumeralValue(Tail(s), acc, place)
    ELSE IF place = Scale
         THEN NumeralValue(Tail(s), 10 * acc + DigitVal(Head(s)) * Scale, place)
    ELSE NumeralValue(Tail(s), acc + DigitVal(Head(s)) * place, place \div 10)

\* A numeral with currency decoration: digits, "$", "," and at most one
\* point, with at least one digit.
IsDecoratedNumeral(s) ==
    /\ \A i \in 1..Len(s) : IsDigit(s[i]) \/ s[i] \in {"$", ",", "."}
    /\ \E i \in 1..Len(s) : IsDigit(s[i])
    /\ Cardinality({i \in 1..Len(s) : s[i] = "."}) <= 1

\* A text with no number at its start: after the decoration and the leading
\* blanks comes nothing, or a character that cannot begin a number.
HasNoLeadingNumber(s) ==
    LET t == DropWhile(s, {"$", ",", " "})
    IN t = <<>> \/ ~(IsDigit(Head(t)) \/ Head(t) \in {"+", "-", "."})

\* C8: extractPrice is total; it returns a number unchanged; for a text it
\* removes "$" and "," and returns the number the remaining numeral
\* denotes ("$1,250,000" gives 1250000); for an absent, empty or
\* unparseable text it returns 0, never NaN.
C8_ExtractPrice ==
    "extractPrice" \in priceCall =>
        /\ priceNum.c \in {"fin", "inf", "nan"}
        /\ priceIn.k = "number" => priceNum = priceIn.n
        /\ priceIn.k = "undefined" => priceNum = Zero
        /\ priceIn.k = "string" =>
            /\ ~IsNaN(priceNum)
            /\ priceIn.s = <<>> => priceNum = Zero
            /\ IsDecoratedNumeral(priceIn.s) =>
                   priceNum = Fin(NumeralValue(priceIn.s, 0, Scale))
            /\ HasNoLeadingNumber(priceIn.s) => priceNum = Zero
            /\ priceIn.s = Text1250000 => priceNum = Whole(1250000)

\* A decorated text has been normalized to a non-zero number.
C8_Witness ==
    /\ "extractPrice" \in priceCall
    /\ priceIn = PriceString(Text1250000)
    /\ priceNum = Whole(1250000)

\* A whole-dollar currency string: an optional "-", "$", then digits in
\* groups of three separated by ",", and no fraction.
IsWholeDollar(s) ==
    LET unsigned == IF s # <<>> /\ Head(s) = "-" THEN Tail(s) ELSE s
        body == IF unsigned # <<>> THEN Tail(unsigned) ELSE <<>>
        n == Len(body)
    IN /\ unsigned # <<>> /\ Head(unsigned) = "$"
       /\ n >= 1
       /\ \A i \in 1..n :
            IF (n - i + 1) % 4 = 0 THEN body[i] = "," /\ i > 1
            ELSE IsDigit(body[i])
       /\ n > 1 => body[1] # "0"

\* The whole dollars a whole-dollar currency string shows, without sign.
DollarsShown(s) == DigitsValue(RemoveChars(s, {"-", "$", ","}))

\* C9: formatPrice returns "Contact for pricing" for an absent or falsy raw
\* price, the raw text unchanged for a non-empty text whose normalized price
\* is 0, and otherwise the normalized price as a whole-dollar currency
\* string (150000 gives "$150,000"); so the currency format is shown exactly
\* when the normalized price is not 0.
C9_FormatPrice ==
    "formatPrice" \in priceCall =>
        LET p == extractPrice(priceIn)
            falsy == \/ priceIn.k = "undefined"
                     \/ priceIn.k = "number" /\ priceIn.n = Zero
                     \/ priceIn.k = "string" /\ priceIn.s = <<>>
            placeholder == priceIn.k = "string" /\ priceIn.s # <<>> /\ p = Zero
            magnitude == IF p.v < 0 THEN -p.v ELSE p.v
        IN /\ falsy => priceText = ContactForPricing
           /\ placeholder => priceText = priceIn.s
           /\ ~falsy /\ ~placeholder =>
                /\ IsWholeDollar(priceText)
                /\ (Head(priceText) = "-") <=> (p.v < 0)
                /\ 2 * (DollarsShown(priceText) * Scale - magnitude) <= Scale
                /\ 2 * (magnitude - DollarsShown(priceText) * Scale) <= Scale
           /\ priceIn = PriceNumber(Whole(150000)) =>
                priceText = <<"$", "1", "5", "0", ",", "0", "0", "0">>
           /\ (p # Zero) <=> (~falsy /\ ~placeholder)

\* A price with a fraction has been displayed in whole dollars.
C9_Witness ==
    /\ "formatPrice" \in priceCall
    /\ priceIn = PriceNumber(Dec(1250, 5))
    /\ priceText = <<"$", "1", ",", "2", "5", "1">>

-----------------------------------------------------------------------------
(* The insights over datasets with prices around the bucket bounds and     *)
(* with more regions than the distribution keeps.                          *)

\* Raw prices at, between and beyond the bounds of the ranges.
InsightPrices ==
    << PriceUndefined, PriceNumber(Zero), PriceString(<<>>), PriceString(Negotiable),
       PriceNumber(Whole(-5)), PriceNumber(Dec(49999, 5)), PriceNumber(Whole(50000)),
       PriceNumber(Whole(99999)), PriceNumber(Whole(100000)), PriceString(Text120000),
       PriceNumber(Whole(249999)), PriceNumber(Whole(250000)),
       PriceNumber(Whole(499999)), PriceNumber(Whole(500000)),
       PriceNumber(Whole(600000)), PriceNumber(PosInf) >>

InsightStates ==
    << NoState, State(""), State("Florida"), State("Idaho"), State("florida") >>

\* A document without uploadedAt value: the store returns such documents
\* in any order.
InsightDoc(id, price, state) ==
    [id |-> id, name |-> Text(<<"A", "b">>), url |-> Text(<<"u">>),
     price |-> price, state |-> state, uploadedAt |-> TsNull]

InsightDocs ==
    {InsightDoc(i, InsightPrices[i], InsightStates[(i % Len(InsightStates)) + 1]) :
        i \in 1..Len(InsightPrices)}

RegionNames ==
    << "Alabama", "Alaska", "Arizona", "Arkansas", "California", "Colorado",
       "Connecticut", "Delaware", "Florida", "Georgia", "Hawaii", "Idaho" >>

\* The snapshot whose i-th document has the region RegionNames[regions[i]].
RegionSnapshot(regions) ==
    [i \in 1..Len(regions) |->
        InsightDoc(100 + i,
                   IF i % 3 = 0 THEN PriceUndefined
                   ELSE IF i % 3 = 1 THEN PriceNumber(Whole(50000))
                   ELSE PriceString(Text120000),
                   State(RegionNames[regions[i]]))]

\* Snapshots with ten, eleven and twelve regions: all once; the last one
\* twice; the first three and the last more than once.
NotableInsightSnapshots ==
    { RegionSnapshot(<<1, 2, 3, 4, 5, 6, 7, 8, 9, 10>>),
      RegionSnapshot(<<1, 2, 3, 4, 5, 6, 7, 8, 9, 10, 11>>),
      RegionSnapshot(<<1, 2, 3, 4, 5, 6, 7, 8, 9, 10, 11, 11>>),
      RegionSnapshot(<<1, 2, 3, 1, 4, 5, 2, 6, 7, 8, 1, 9, 10, 3, 11, 12, 12>>) }

InsightSnapshots ==
    {docs \in UNION {[1..n -> InsightDocs] : n \in 0..MaxListings} :
        IsQueryResult(docs)}
    \cup NotableInsightSnapshots

InitInsights ==
    /\ iteration = "current"
    /\ listings = <<>>
    /\ loading = TRUE
    /\ error = NoError
    /\ activeView = "dashboard"
    /\ searchTerm = <<>>
    /\ selectedState = "all"
    /\ minPrice = <<>>
    /\ maxPrice = <<>>
    /\ sortBy = "newest"
    /\ fetchPc = "pending"
    /\ view = <<>>
    /\ insights = InsightsFor(iteration, <<>>)
    /\ PriceIdle
    /\ TsIdle

\* fetchListings over the snapshots above.
FetchInsightSnapshot ==
    /\ fetchPc = "pending"
    /\ \E docs \in InsightSnapshots : listings' = MapDocs(docs)
    /\ loading' = FALSE
    /\ fetchPc' = "settled"
    /\ UNCHANGED <<iteration, error, activeView, searchTerm, selectedState,
                   minPrice, maxPrice, sortBy, priceVars, tsVars>>
    /\ Render

NextInsights == FetchInsightSnapshot

SpecInsights == InitInsights /\ [][NextInsights]_vars

\* The normalized prices of the dataset, listing by listing.
NormalizedPrices == [k \in 1..Len(listings) |-> extractPrice(listings[k].price)]

\* The lower bounds, in dollars, of the buckets [0,50k), [50k,100k),
\* [100k,250k), [250k,500k) and [500k,infinity).
LowerBounds == <<0, 50000, 100000, 250000, 500000>>

\* lowerBound <= p < upperBound for the i-th bucket and a positive number p.
InBucket(p, i) ==
    /\ p.c = "fin" /\ p.v > 0
    /\ p.v >= LowerBounds[i] * Scale
    /\ i < Len(LowerBounds) => p.v < LowerBounds[i + 1] * Scale

RECURSIVE SumOf(_)
SumOf(counts) == IF counts = <<>> THEN 0 ELSE Head(counts) + SumOf(Tail(counts))

BucketCounts == [i \in 1..Len(insights.prices) |-> insights.prices[i].count]

\* The count of each of the five buckets is the number of listings whose
\* normalized price lies between its bounds.
BucketsHoldTheirPrices ==
    /\ Len(insights.prices) = Len(LowerBounds)
    /\ \A i \in 1..Len(LowerBounds) :
         insights.prices[i].count =
             Cardinality({k \in 1..Len(listings) : InBucket(NormalizedPrices[k], i)})

\* C13 as stated: every listing with normalized price p > 0 is counted in
\* exactly one bucket, the one with lowerBound <= p < upperBound, and a
\* listing with normalized price 0 in none.
C13_EveryPositivePriceCounted ==
    fetchPc = "settled" =>
        /\ BucketsHoldTheirPrices
        /\ SumOf(BucketCounts) =
               Cardinality({k \in 1..Len(listings) : NumGt(NormalizedPrices[k], Zero)})

\* C13, amended: every listing with a finite normalized price p > 0 is
\* counted in exactly one bucket, the one with lowerBound <= p <
\* upperBound (a price on a bound goes to the upper bucket); a listing
\* with normalized price 0, or +Infinity, is counted in none.
C13_HistogramAssignment ==
    fetchPc = "settled" =>
        /\ BucketsHoldTheirPrices
        /\ SumOf(BucketCounts) =
               Cardinality({k \in 1..Len(listings) :
                   NormalizedPrices[k].c = "fin" /\ NormalizedPrices[k].v > 0})

\* A price on the bound 50000 counted in the second bucket, beside a
\* listing of normalized price 0.
C13_Witness ==
    /\ fetchPc = "settled"
    /\ \E k \in 1..Len(listings) : NormalizedPrices[k] = Whole(50000)
    /\ \E k \in 1..Len(listings) : NormalizedPrices[k] = Zero
    /\ insights.prices[1].count = 0
    /\ insights.prices[2].count = 1

\* C14 as stated: the five bucket counts and the number of listings whose
\* normalized price is 0 add up to the number of listings that have a
\* price field.
C14_PriceConservationOverDefined ==
    fetchPc = "settled" =>
        SumOf(BucketCounts)
        + Cardinality({k \in 1..Len(listings) : NormalizedPrices[k] = Zero})
        = Cardinality({k \in 1..Len(listings) : listings[k].price.k # "undefined"})

\* C14, amended: the five bucket counts and the number of listings whose
\* normalized price is not a finite positive number (0, negative or
\* infinite) add up to the number of listings.
C14_PriceConservation ==
    fetchPc = "settled" =>
        SumOf(BucketCounts)
        + Cardinality({k \in 1..Len(listings) :
              ~(NormalizedPrices[k].c = "fin" /\ NormalizedPrices[k].v > 0)})
        = Len(listings)

\* A listing without price field and a negative price beside a counted one.
C14_Witness ==
    /\ fetchPc = "settled"
    /\ \E k \in 1..Len(listings) : listings[k].price.k = "undefined"
    /\ SumOf(BucketCounts) = 1
    /\ Len(listings) = 2

\* The per-region counts before the ten largest are taken.
RegionCounts == CountsOf(StateCounts(listings, <<>>))

\* The counts of insights.regions are all the counts when there are fewer
\* than eleven regions.
ShownRegionCounts == [i \in 1..Len(insights.regions) |-> insights.regions[i].count]

DistinctRegions ==
    {listings[k].state.s : k \in {j \in 1..Len(listings) :
        listings[j].state.k = "string" /\ listings[j].state.s # ""}}

\* The number of listings of the whole dataset in region s.
ListingsIn(s) == Cardinality({k \in 1..Len(listings) : listings[k].state = State(s)})

LargestOf(entries) ==
    IF entries = <<>> THEN 0
    ELSE CHOOSE m \in {entries[i].count : i \in 1..Len(entries)} :
             \A i \in 1..Len(entries) : entries[i].count <= m

\* percentage is count / max(largest, 1) * 100 to the nearest 1/Scale,
\* within 0 and 100, and exactly 100 on the largest entry.
PercentagesOfMax(entries) ==
    LET m == IF LargestOf(entries) > 1 THEN LargestOf(entries) ELSE 1
    IN  \A i \in 1..Len(entries) :
          LET pct == entries[i].percentage
              d == pct.v * m - entries[i].count * 100 * Scale
          IN  /\ pct.c = "fin"
              /\ 2 * d <= m /\ 2 * d >= 0 - m
              /\ pct.v >= 0 /\ pct.v <= 100 * Scale
              /\ (entries[i].count = LargestOf(entries) /\ entries[i].count > 0)
                     => pct.v = 100 * Scale

NonZeroPrices == SelectSeq(NormalizedPrices, LAMBDA p : p # Zero)

RECURSIVE SumOfPrices(_)
SumOfPrices(prices) ==
    IF prices = <<>> THEN Zero ELSE NumAdd(Head(prices), SumOfPrices(Tail(prices)))

\* C19: the average shown is the sum of the normalized prices that are not
\* 0 over the number of those prices, and the unknown-price text when
\* every normalized price is 0.
C19_AveragePrice ==
    insights.average =
        IF NonZeroPrices = <<>> THEN ContactForPricing
        ELSE formatPrice(PriceNumber(NumDiv(SumOfPrices(NonZeroPrices),
                                            Len(NonZeroPrices))))

-----------------------------------------------------------------------------
(* The temporal normalizers applied to one raw uploadedAt.                 *)

InitTime ==
    /\ iteration \in {"current", "earlier"}
    /\ listings = <<>>
    /\ loading = TRUE
    /\ error = NoError
    /\ activeView = "dashboard"
    /\ searchTerm = <<>>
    /\ selectedState = "all"
    /\ minPrice = <<>>
    /\ maxPrice = <<>>
    /\ sortBy = "newest"
    /\ fetchPc = "pending"
    /\ view = <<>>
    /\ insights = InsightsFor(iteration, <<>>)
    /\ PriceIdle
    /\ tsIn \in TsInputs
    /\ tsCall = {}
    /\ tsNum = Returned(Zero)
    /\ tsText = Returned(<<>>)

CallGetTimestamp ==
    /\ "getTimestamp" \notin tsCall
    /\ tsNum' = getTimestamp(tsIn)
    /\ tsCall' = tsCall \cup {"getTimestamp"}
    /\ UNCHANGED <<tsIn, tsText, appVars, priceVars>>

CallFormatUploadedAt ==
    /\ "formatUploadedAt" \notin tsCall
    /\ tsText' = formatUploadedAt(tsIn)
    /\ tsCall' = tsCall \cup {"formatUploadedAt"}
    /\ UNCHANGED <<tsIn, tsNum, appVars, priceVars>>

NextTime == CallGetTimestamp \/ CallFormatUploadedAt

SpecTime == InitTime /\ [][NextTime]_vars

\* The failure conditions of the temporal normalizers: the input is absent
\* or null, a text that is no parseable date, an object whose toDate throws,
\* or an object without the conversion capability.
TsCannotConvert(value) ==
    \/ value.k \in {"null", "undefined"}
    \/ value.k = "string" /\ IsNaN(DateParse(value.s))
    \/ value.k = "object" /\ value.toDate \in {"throws", "none"}

\* C6: getTimestamp never throws and returns the instant or exactly 0: it
\* returns 0 when the input cannot be converted, and never NaN.
C6_GetTimestampTotal ==
    "getTimestamp" \in tsCall =>
        /\ ~tsNum.thrown
        /\ ~IsNaN(tsNum.v)
        /\ TsCannotConvert(tsIn) => tsNum.v = Zero

\* C7: formatUploadedAt never throws and returns the empty string under the
\* failure conditions of getTimestamp.
C7_FormatUploadedAtEmpty ==
    "formatUploadedAt" \in tsCall =>
        /\ ~tsText.thrown
        /\ TsCannotConvert(tsIn) => tsText.v = <<>>

=============================================================================
